---- MODULE Spec2Model ----
(***************************************************************************)
(* Model of backend/build_graph.py: resolution of seed names through the   *)
(* Semantic Scholar author search, retrieval of each resolved author's     *)
(* papers, accumulation of co-authorship edge weights, and the final       *)
(* filtering / pruning / degree pass that produces graph.json.             *)
(*                                                                         *)
(* Author identifiers are Python strings of digits; they are modelled as   *)
(* sequences of digits so that the string comparison of line 168 is the    *)
(* lexicographic one.  Python dicts are modelled as sequences of           *)
(* <<key, value>> entries in insertion order.  Durations are in tenths of  *)
(* a second.                                                               *)
(***************************************************************************)
EXTENDS Integers, Sequences, FiniteSets, TLC

\* ------------------------------------------------------------------ bounds
MaxSeeds == 2      \* longest researchers.txt explored
MaxPapers == 1     \* most papers in one /papers response
MaxAuthors == 2    \* most author entries on one paper
SleptCap == 10     \* the time slept since the last GET is tracked up to 1.0 s

\* ------------------------------------------------------- program constants
SLEEP_SECONDS == 8
MIN_EDGE_WEIGHT == 2
\* range(3) of line 40, and one attempt more
S2AttemptsFour == 3 + 1
S2Attempts == 3
\* range(3) of line 67, and one retry more
FindRetriesFour == 3 + 1
FindRetries == 3
RetrySleepShort == 2 + 3
RetrySleep == 15
LongSleep == 30

\* Python None for an optional value (year, paperCount, MIN_YEAR): the empty
\* sequence; a present value x is <<x>>
None == <<>>
\* a missing / None / "" authorId
NoId == <<>>
MIN_YEAR == None
\* what s2_get returns after its attempts are used up
NoneData == [kind |-> "none"]
\* no call of find_author_id_by_name has returned and awaits unpacking
NoResult == [found |-> FALSE]

\* ------------------------------------------------------------ input domains
Names == {"alice", "bob"}
Ids == {<<1>>, <<1, 0>>, <<9>>}
Years == {None, <<2019>>, <<2021>>}

AName(id) == IF id = <<1>> THEN "A. One" ELSE IF id = <<1, 0>> THEN "B. Ten" ELSE "C. Nine"

\* researchers.txt after read_researchers: non-empty stripped lines, in order
SeedLists == UNION {[1..n -> Names] : n \in 0..MaxSeeds}

\* the author record the API holds for an id; a candidate may lack authorId
TopOf(a) ==
  IF a = <<1, 0>>
    THEN [authorId |-> a, affiliations |-> <<"UW">>, paperCount |-> <<5>>]
    ELSE [authorId |-> a, affiliations |-> <<>>, paperCount |-> None]

\* one candidate of an /author/search response
Tops == {TopOf(a) : a \in Ids \cup {NoId}}

\* JSON bodies of a 200 response to /author/search
SearchBodies == {[kind |-> "empty"], [kind |-> "nodata"], [kind |-> "data", data |-> <<>>]}
                  \cup {[kind |-> "data", data |-> <<t>>] : t \in Tops}

\* author entries of a paper: well-formed, or lacking an id, or lacking a name
AuthorEntries == {[authorId |-> a, name |-> AName(a)] : a \in Ids}
                   \cup {[authorId |-> NoId, name |-> "D. Noid"], [authorId |-> <<9>>, name |-> ""]}

AuthorLists == UNION {[1..n -> AuthorEntries] : n \in 0..MaxAuthors}

Papers == [year : Years, authors : AuthorLists]

\* ------------------------------------------------------------ dict helpers
HasKey(d, k) == \E n \in 1..Len(d) : d[n][1] = k

Get(d, k, default) == IF HasKey(d, k) THEN d[CHOOSE n \in 1..Len(d) : d[n][1] = k][2] ELSE default

Put(d, k, v) ==
  IF HasKey(d, k)
    THEN [n \in 1..Len(d) |-> IF d[n][1] = k THEN <<k, v>> ELSE d[n]]
    ELSE Append(d, <<k, v>>)

\* "not a_id" / "not author_id": None or the empty string
FalsyId(a) == a = NoId

\* "not a_name" left out of line 152
FalsyNameNever(n) == FALSE

\* "not a_name"
FalsyName(n) == n = ""

\* "not data" taken to hold also of a body whose "data" list is empty
NotDataOrEmptyList(data) ==
  data.kind \in {"none", "empty"} \/ (data.kind = "data" /\ data.data = <<>>)

\* "not data" for what s2_get returned: None, or a falsy JSON body such as {}
NotData(data) == data.kind \in {"none", "empty"}

\* str comparison u < v on digit strings: lexicographic
RECURSIVE LexLess(_, _)
LexLess(u, v) ==
  IF u = <<>> THEN v # <<>>
  ELSE IF v = <<>> THEN FALSE
  ELSE IF Head(u) # Head(v) THEN Head(u) < Head(v)
  ELSE LexLess(Tail(u), Tail(v))

VARIABLES
  min_year,        \* the configured MIN_YEAR
  researchers,     \* the names of researchers.txt the loop of line 107 has yet to reach
  pc,              \* where main is
  j,               \* position of the loop of line 138 in uw_author_ids
  round,           \* calls of s2_get completed by this find_author_id_by_name
  attempt,         \* the loop variable of s2_get
  gets,            \* GETs issued by the running call of find_author_id_by_name / get_author_papers
  slept,           \* time slept since the last GET
  called,          \* a GET has been issued
  result,          \* what find_author_id_by_name returned
  uw_author_ids, uw_author_meta, node_meta, edge_weights,
  papers_left,     \* papers of the loop of line 142 still to come
  edges, nodes     \* the graph written

vars == <<min_year, researchers, pc, j, round, attempt, gets, slept, called, result,
          uw_author_ids, uw_author_meta, node_meta, edge_weights,
          papers_left, edges, nodes>>

Init ==
  /\ min_year = MIN_YEAR
  /\ researchers \in SeedLists
  /\ pc = IF researchers = <<>> THEN "addnodes" ELSE "resolve"
  /\ j = 1
  /\ round = 0
  /\ attempt = 0
  /\ gets = 0
  /\ slept = 0
  /\ called = FALSE
  /\ result = NoResult
  /\ uw_author_ids = <<>>
  /\ uw_author_meta = <<>>
  /\ node_meta = <<>>
  /\ edge_weights = <<>>
  /\ papers_left = 0
  /\ edges = <<>>
  /\ nodes = <<>>

\* ------------------------------------------------- find_author_id_by_name
\* lines 72-76: None, or the pair (top.get("authorId"), top)
FindResult(data) ==
  IF NotData(data) \/ data.kind # "data" \/ Len(data.data) = 0
    THEN [found |-> FALSE]
    ELSE [found |-> TRUE, author_id |-> data.data[1].authorId, meta |-> data.data[1]]

\* time slept since the last GET, after one more time.sleep(d)
Sleep(sl, d) == IF sl + d > SleptCap THEN SleptCap ELSE sl + d

\* lines 65-73, with what one call of s2_get returned; sl is the time slept
\* since the GET
AfterSearch(data, sl) ==
  IF NotData(data) /\ round < FindRetries
    THEN /\ round' = round + 1
         /\ attempt' = 0
         /\ slept' = Sleep(sl, LongSleep)
         /\ UNCHANGED <<pc, result>>
    ELSE /\ pc' = "unpack"
         /\ result' = FindResult(data)
         /\ slept' = sl
         /\ UNCHANGED <<round, attempt>>

\* one GET of /author/search that raises, or answers with a status other than
\* 200, or with a body r.json() cannot parse (lines 45-49)
SearchFail ==
  /\ pc = "resolve"
  /\ gets' = gets + 1
  /\ called' = TRUE
  /\ IF attempt + 1 < S2Attempts
       THEN /\ attempt' = attempt + 1
            /\ slept' = Sleep(0, RetrySleep)
            /\ UNCHANGED <<pc, round, result>>
       ELSE AfterSearch(NoneData, Sleep(0, RetrySleep))
  /\ UNCHANGED <<min_year, researchers, j, uw_author_ids, uw_author_meta, node_meta,
                 edge_weights, papers_left, edges, nodes>>

\* one GET of /author/search answered 200 with a JSON body (lines 43-44)
SearchOk ==
  /\ pc = "resolve"
  /\ gets' = gets + 1
  /\ called' = TRUE
  /\ \E body \in SearchBodies : AfterSearch(body, 0)
  /\ UNCHANGED <<min_year, researchers, j, uw_author_ids, uw_author_meta, node_meta,
                 edge_weights, papers_left, edges, nodes>>

\* ---------------------------------------------------------- main, step 1
\* lines 108-116 with the value find_author_id_by_name returned: unpacking
\* None raises TypeError and ends the run
Unpack ==
  /\ pc = "unpack"
  /\ IF ~result.found
       THEN /\ pc' = "crashed"
            /\ UNCHANGED <<researchers, round, attempt, gets, slept, result,
                           uw_author_ids, uw_author_meta>>
       ELSE /\ slept' = Sleep(slept, SLEEP_SECONDS)
            /\ researchers' = Tail(researchers)
            /\ round' = 0
            /\ attempt' = 0
            /\ gets' = 0
            /\ result' = NoResult
            /\ pc' = IF Tail(researchers) = <<>> THEN "addnodes" ELSE "resolve"
            /\ IF FalsyId(result.author_id)
                 THEN UNCHANGED <<uw_author_ids, uw_author_meta>>
                 ELSE /\ uw_author_ids' = Put(uw_author_ids, Head(researchers), result.author_id)
                      /\ uw_author_meta' = Put(uw_author_meta, Head(researchers), result.meta)
  /\ UNCHANGED <<min_year, j, called, node_meta, edge_weights, papers_left, edges, nodes>>

\* lines 129-135: the "uw" node of the n-th resolved name, stored under its
\* author id whether or not the id has a node already
AddUWNode(ids, meta, n, nm) ==
  LET name == ids[n][1]
      author_id == ids[n][2]
      m == Get(meta, name, [affiliations |-> <<>>, paperCount |-> None])
  IN Put(nm, author_id, [id |-> author_id, name |-> name, type |-> "uw",
                         affiliations |-> m.affiliations,
                         paperCount |-> m.paperCount])

\* lines 128-135: one "uw" node per resolved name, keyed by author id
RECURSIVE AddUWNodes(_, _, _, _)
AddUWNodes(ids, meta, n, nm) ==
  IF n > Len(ids) THEN nm
  ELSE AddUWNodes(ids, meta, n + 1, AddUWNode(ids, meta, n, nm))

\* one iteration of the loop of line 128, or its end
AddNodes ==
  /\ pc = "addnodes"
  /\ IF j <= Len(uw_author_ids)
       THEN /\ node_meta' = AddUWNode(uw_author_ids, uw_author_meta, j, node_meta)
            /\ j' = j + 1
            /\ UNCHANGED <<pc, attempt>>
       ELSE /\ j' = 1
            /\ attempt' = 0
            /\ pc' = IF Len(uw_author_ids) = 0 THEN "finalize" ELSE "fetch"
            /\ UNCHANGED node_meta
  /\ UNCHANGED <<min_year, researchers, round, gets, slept, called, result, uw_author_ids,
                 uw_author_meta, edge_weights, papers_left, edges, nodes>>

\* ------------------------------------------------------ get_author_papers
\* JSON bodies of a 200 response to /author/{id}/papers; the papers of a
\* "data" list are drawn when the loop of line 142 reaches them
PaperBodies == {[kind |-> "empty"], [kind |-> "nodata"]}
                 \cup {[kind |-> "data", count |-> n] : n \in 0..MaxPapers}

\* a list of n papers
PaperList(n) == [list |-> TRUE, count |-> n]

\* get_author_papers without the check of line 89: data.get("data") as is
GetAuthorPapersUnchecked(data) ==
  IF data.kind = "data" THEN PaperList(data.count) ELSE [list |-> FALSE, count |-> 0]

\* lines 89-91: the list returned
GetAuthorPapers(data) ==
  IF NotData(data) \/ data.kind # "data" THEN PaperList(0) ELSE PaperList(data.count)

\* lines 139-142 with what s2_get returned; "for p in papers" raises TypeError
\* on a value that is no list
AfterFetch(data, sl) ==
  LET papers == GetAuthorPapers(data)
  IN /\ papers_left' = papers.count
     /\ slept' = Sleep(sl, SLEEP_SECONDS)
     /\ attempt' = 0
     /\ pc' = IF papers.list THEN "ingest" ELSE "crashed"

\* one GET of /author/{id}/papers that raises, or answers with a status other
\* than 200, or with a body r.json() cannot parse
FetchFail ==
  /\ pc = "fetch"
  /\ gets' = gets + 1
  /\ called' = TRUE
  /\ IF attempt + 1 < S2Attempts
       THEN /\ attempt' = attempt + 1
            /\ slept' = Sleep(0, RetrySleep)
            /\ UNCHANGED <<pc, papers_left>>
       ELSE AfterFetch(NoneData, Sleep(0, RetrySleep))
  /\ UNCHANGED <<min_year, researchers, j, round, result, uw_author_ids, uw_author_meta,
                 node_meta, edge_weights, edges, nodes>>

\* one GET of /author/{id}/papers answered 200 with a JSON body
FetchOk ==
  /\ pc = "fetch"
  /\ gets' = gets + 1
  /\ called' = TRUE
  /\ \E body \in PaperBodies : AfterFetch(body, 0)
  /\ UNCHANGED <<min_year, researchers, j, round, result, uw_author_ids, uw_author_meta,
                 node_meta, edge_weights, edges, nodes>>

\* ---------------------------------------------------------- main, step 2
\* str() of an author id, which is a str already
Str(x) == x

\* the edge key without the swap of lines 168-169
EdgeKeyAsSeen(author_id, a_id) == <<Str(author_id), Str(a_id)>>

\* lines 166-169: the undirected edge key
EdgeKey(author_id, a_id) ==
  LET u == Str(author_id)
      v == Str(a_id)
  IN IF LexLess(v, u) THEN <<v, u>> ELSE <<u, v>>

\* line 170: edge_weights[key] += 1 on a defaultdict(int)
Increment(ew, key) == Put(ew, key, Get(ew, key, 0) + 1)

\* line 164 without the comparison
IsOtherAlways(a_id, author_id) == TRUE

\* line 164: whether the author entry is credited with an edge to the seed
IsOther(a_id, author_id) == a_id # author_id

\* lines 150-170 without the test of line 155
IngestAuthorOverwrite(a, author_id, st) ==
  IF FalsyId(a.authorId) \/ FalsyName(a.name) THEN st
  ELSE [node_meta |->
          Put(st.node_meta, a.authorId,
              [id |-> a.authorId, name |-> a.name, type |-> "coauthor"]),
        edge_weights |->
          IF IsOther(a.authorId, author_id)
            THEN Increment(st.edge_weights, EdgeKey(author_id, a.authorId))
            ELSE st.edge_weights]

\* lines 150-170 for one author entry a of a paper of seed author_id
IngestAuthor(a, author_id, st) ==
  IF FalsyId(a.authorId) \/ FalsyName(a.name) THEN st
  ELSE [node_meta |->
          IF HasKey(st.node_meta, a.authorId) THEN st.node_meta
          ELSE Append(st.node_meta,
                      <<a.authorId, [id |-> a.authorId, name |-> a.name, type |-> "coauthor"]>>),
        edge_weights |->
          IF IsOther(a.authorId, author_id)
            THEN Increment(st.edge_weights, EdgeKey(author_id, a.authorId))
            ELSE st.edge_weights]

RECURSIVE IngestAuthors(_, _, _)
IngestAuthors(authors, author_id, st) ==
  IF authors = <<>> THEN st
  ELSE IngestAuthors(Tail(authors), author_id, IngestAuthor(Head(authors), author_id, st))

\* line 144 with <= for <
TooOldInclusive(p) == min_year # None /\ p.year # None /\ p.year[1] <= min_year[1]

\* lines 143-145: the paper is skipped
TooOld(p) == min_year # None /\ p.year # None /\ p.year[1] < min_year[1]

\* lines 143-170 for one paper p of seed author_id
IngestOne(p, author_id, st) ==
  IF TooOld(p) THEN st ELSE IngestAuthors(p.authors, author_id, st)

\* the maps after the loop body of line 142 has run on paper p
Ingested(p) ==
  LET st == IngestOne(p, uw_author_ids[j][2],
                      [node_meta |-> node_meta, edge_weights |-> edge_weights])
  IN /\ node_meta' = st.node_meta
     /\ edge_weights' = st.edge_weights

\* one iteration of the loop of line 142
IngestPaper ==
  /\ pc = "ingest"
  /\ papers_left > 0
  /\ \E p \in Papers : Ingested(p)
  /\ papers_left' = papers_left - 1
  /\ gets' = 0
  /\ UNCHANGED <<min_year, researchers, pc, j, round, attempt, slept, called, result,
                 uw_author_ids, uw_author_meta, edges, nodes>>

\* the loop of line 142 is over: next iteration of the loop of line 138
NextAuthor ==
  /\ pc = "ingest"
  /\ papers_left = 0
  /\ j' = j + 1
  /\ gets' = 0
  /\ pc' = IF j + 1 > Len(uw_author_ids) THEN "finalize" ELSE "fetch"
  /\ UNCHANGED <<min_year, researchers, round, attempt, slept, called, result, uw_author_ids,
                 uw_author_meta, node_meta, edge_weights, papers_left,
                 edges, nodes>>

\* ---------------------------------------------------------- main, step 3
\* line 176 with > for >=
SurvivesStrict(w, min) == w > min

\* line 176
Survives(w, min) == w >= min

\* lines 174-177
BuildEdges(ew, min) ==
  LET kept == SelectSeq(ew, LAMBDA e : Survives(e[2], min))
  IN [n \in 1..Len(kept) |->
        [source |-> kept[n][1][1], target |-> kept[n][1][2], weight |-> kept[n][2]]]

\* lines 180-183 without line 183
UsedNodesSources(es) == {Str(es[n].source) : n \in 1..Len(es)}

\* lines 180-183
UsedNodes(es) ==
  {Str(es[n].source) : n \in 1..Len(es)} \cup {Str(es[n].target) : n \in 1..Len(es)}

\* lines 191-194 without line 194
DegreeAsSource(es, x) == Cardinality({n \in 1..Len(es) : Str(es[n].source) = x})

\* lines 191-194: degree[x]
Degree(es, x) ==
  Cardinality({n \in 1..Len(es) : Str(es[n].source) = x})
    + Cardinality({n \in 1..Len(es) : Str(es[n].target) = x})

\* line 197: n["degree"] = ...
WithDegree(meta, d) ==
  [f \in DOMAIN meta \cup {"degree"} |-> IF f = "degree" THEN d ELSE meta[f]]

\* lines 185-197 without the test of line 187
BuildNodesKeepAll(nm, es) ==
  [n \in 1..Len(nm) |-> WithDegree(nm[n][2], Degree(es, Str(nm[n][2].id)))]

\* lines 185-197
BuildNodes(nm, es) ==
  LET kept == SelectSeq(nm, LAMBDA e : Str(e[1]) \in UsedNodes(es))
  IN [n \in 1..Len(kept) |-> WithDegree(kept[n][2], Degree(es, Str(kept[n][2].id)))]

\* lines 196-197 seen from node_meta: nodes holds the very dicts of node_meta,
\* so the kept ones gain "degree" there too
DegreesSet(nm, es) ==
  [n \in 1..Len(nm) |->
     IF Str(nm[n][1]) \in UsedNodes(es)
       THEN <<nm[n][1], WithDegree(nm[n][2], Degree(es, Str(nm[n][2].id)))>>
       ELSE nm[n]]

\* lines 174-205: the graph is built and written
Finalize ==
  /\ pc = "finalize"
  /\ edges' = BuildEdges(edge_weights, MIN_EDGE_WEIGHT)
  /\ nodes' = BuildNodes(node_meta, BuildEdges(edge_weights, MIN_EDGE_WEIGHT))
  /\ node_meta' = DegreesSet(node_meta, BuildEdges(edge_weights, MIN_EDGE_WEIGHT))
  /\ pc' = "done"
  /\ UNCHANGED <<min_year, researchers, j, round, attempt, gets, slept, called, result,
                 uw_author_ids, uw_author_meta, edge_weights, papers_left>>

Next ==
  \/ SearchFail
  \/ SearchOk
  \/ Unpack
  \/ AddNodes
  \/ FetchFail
  \/ FetchOk
  \/ IngestPaper
  \/ NextAuthor
  \/ Finalize

Spec == Init /\ [][Next]_vars

\* line 22 edited as its comment allows: a minimum year
ConfiguredMinYear == <<2021>>

\* the state after construction with MIN_YEAR either disabled or configured
InitYear ==
  /\ min_year \in {MIN_YEAR, ConfiguredMinYear}
  /\ researchers \in SeedLists
  /\ pc = IF researchers = <<>> THEN "addnodes" ELSE "resolve"
  /\ j = 1
  /\ round = 0
  /\ attempt = 0
  /\ gets = 0
  /\ slept = 0
  /\ called = FALSE
  /\ result = NoResult
  /\ uw_author_ids = <<>>
  /\ uw_author_meta = <<>>
  /\ node_meta = <<>>
  /\ edge_weights = <<>>
  /\ papers_left = 0
  /\ edges = <<>>
  /\ nodes = <<>>

SpecYear == InitYear /\ [][Next]_vars

\* main is one sequential thread and every GET returns or raises within its
\* timeout (line 42), so a run that can take a step takes one
FairSpec == Spec /\ WF_vars(Next)

\* ================================================================ claims
\* the state the loop of line 138 starts from: the "uw" nodes, no edge
StartMaps ==
  [node_meta |-> AddUWNodes(uw_author_ids, uw_author_meta, 1, <<>>), edge_weights |-> <<>>]

\* the maps the run holds now
NowMaps == [node_meta |-> node_meta, edge_weights |-> edge_weights]

\* C1: a seed name that resolves to nothing is skipped: the step of main that
\* takes the no-match value leaves the resolved names, the nodes and the edges
\* as they are and goes on with the next name or with the output.
C1_MissIsSkipped ==
  [][(pc = "unpack" /\ ~result.found)
       => /\ pc' \in {"resolve", "addnodes"}
          /\ researchers' = Tail(researchers)
          /\ UNCHANGED <<uw_author_ids, uw_author_meta, node_meta, edge_weights>>]_vars

\* ------------------------------------------------------- the emitted graph
\* the unordered pair a link or an edge key stands for
Ends(u, v) == {u, v}

\* number of emitted links that have x as source or target
Incident(x) == Cardinality({n \in 1..Len(edges) : x \in Ends(edges[n].source, edges[n].target)})

\* C2: in the emitted graph every node is the source or target of at least one
\* link, and the source and the target of every link each have exactly one
\* node.
C2_NodesAndLinksAgree ==
  pc = "done"
    => /\ \A n \in 1..Len(nodes) : Incident(nodes[n].id) >= 1
       /\ \A e \in 1..Len(edges) : \A x \in Ends(edges[e].source, edges[e].target) :
            Cardinality({n \in 1..Len(nodes) : nodes[n].id = x}) = 1

\* C2 witness: a graph was emitted with a link, and a node that is on no link
\* was left out
C2_OrphanPruned == pc = "done" /\ Len(edges) >= 1 /\ Len(nodes) < Len(node_meta)

\* C3: one resolution of a seed name issues at most 6 GETs: 3 separated by
\* the short delay and then 3 separated by the longer one.
C3_AtMostSixGets == pc \in {"resolve", "unpack", "crashed"} => gets <= 6

\* ------------------------------------------------------------ edge weights
\* accumulated weight of the unordered pair {a, b}
WeightOf(ew, a, b) ==
  Get(ew, <<a, b>>, 0) + (IF a # b THEN Get(ew, <<b, a>>, 0) ELSE 0)

\* the distinct co-authors of seed s on paper p that have an id and a name
CoAuthors(p, s) ==
  {p.authors[n].authorId :
     n \in {m \in 1..Len(p.authors) : p.authors[m].authorId # NoId /\ p.authors[m].name # ""}}
    \ {s}

\* the step is one iteration of the loop of line 142, on paper p
IngestStep(p) ==
  pc = "ingest" /\ papers_left > 0 /\ papers_left' = papers_left - 1 /\ Ingested(p)

\* C4: ingesting a paper of seed S adds exactly 1 to the weight of {S, C} for
\* each distinct co-author C of the paper, however often C is listed, and
\* leaves every other pair as it is.
C4_OncePerDistinctCoAuthor ==
  [][\A p \in Papers : IngestStep(p) =>
       LET s == uw_author_ids[j][2]
       IN \A a, b \in Ids :
            WeightOf(edge_weights', a, b) =
              WeightOf(edge_weights, a, b)
                + (IF a # b /\ s \in {a, b} /\ {a, b} \ {s} \subseteq CoAuthors(p, s)
                     THEN 1 ELSE 0)]_vars

\* C5: neither the edge-weight map nor the emitted links ever hold an entry
\* whose two ends are the same author.
C5_NoSelfLoop ==
  /\ \A n \in 1..Len(edge_weights) : edge_weights[n][1][1] # edge_weights[n][1][2]
  /\ \A n \in 1..Len(edges) : edges[n].source # edges[n].target

\* the paper lists the seed s itself and another author
ListsSeedAndOther(p, s) ==
  /\ \E n \in 1..Len(p.authors) : p.authors[n].authorId = s /\ p.authors[n].name # ""
  /\ CoAuthors(p, s) # {}

\* C5 witness: the first seed's first paper has been ingested, and it lists
\* the seed among its authors
C5_OwnPaperIngested ==
  /\ pc = "ingest"
  /\ j = 1
  /\ edge_weights # <<>>
  /\ \E p \in Papers :
       /\ ListsSeedAndOther(p, uw_author_ids[1][2])
       /\ NowMaps = IngestOne(p, uw_author_ids[1][2], StartMaps)

\* C6: every key of the edge-weight map has its lexicographically smaller id
\* first, no two keys stand for the same unordered pair (so both directions
\* of a co-authorship feed one counter), and the emitted links hold at most
\* one entry per unordered pair.
C6_CanonicalEdges ==
  /\ \A n \in 1..Len(edge_weights) :
       LexLess(edge_weights[n][1][1], edge_weights[n][1][2])
  /\ \A m, n \in 1..Len(edge_weights) :
       Ends(edge_weights[m][1][1], edge_weights[m][1][2])
         = Ends(edge_weights[n][1][1], edge_weights[n][1][2]) => m = n
  /\ \A m, n \in 1..Len(edges) :
       Ends(edges[m].source, edges[m].target)
         = Ends(edges[n].source, edges[n].target) => m = n

\* a paper whose only author entry is the author a
PaperWith(a) == [year |-> None, authors |-> <<[authorId |-> a, name |-> AName(a)]>>]

\* C6 witness: two seeds A and B, B's id the smaller one; A's paper listed B
\* and B's paper listed A, and the pair has the one counter, at 2, under the
\* key (B, A)
C6_BothDirectionsSeen ==
  /\ pc = "ingest"
  /\ j = 2
  /\ papers_left = 0
  /\ LET A == uw_author_ids[1][2]
         B == uw_author_ids[2][2]
     IN /\ LexLess(B, A)
        /\ NowMaps = IngestOne(PaperWith(A), B, IngestOne(PaperWith(B), A, StartMaps))
        /\ edge_weights = <<(<<(<<B, A>>), 2>>)>>

\* C7: the degree of every emitted node is the number of emitted links that
\* have the node's id as source or target.
C7_DegreeIsIncidentLinks ==
  pc = "done" => \A n \in 1..Len(nodes) : nodes[n].degree = Incident(nodes[n].id)

\* C7 witness: a graph was emitted in which one node is on two links and
\* another on one
C7_DegreeTwoEmitted ==
  /\ pc = "done"
  /\ \E n \in 1..Len(nodes) : nodes[n].degree = 2
  /\ \E n \in 1..Len(nodes) : nodes[n].degree = 1

\* C8: when the last attempt of a fetch fails like those before it,
\* get_author_papers gives the empty list: the run goes on to the loop over
\* the papers with nothing to ingest, as after a response that lists no
\* paper, and neither the nodes nor the edge weights change.
C8_FailedFetchIsEmpty ==
  [][(attempt = S2Attempts - 1 /\ FetchFail)
       => /\ pc' = "ingest"
          /\ papers_left' = 0
          /\ papers_left' = GetAuthorPapers([kind |-> "data", count |-> 0]).count
          /\ UNCHANGED <<node_meta, edge_weights, uw_author_ids, j>>]_vars

\* C8 witness: the first of two resolved authors had every GET for the papers
\* fail, and the run is about to go on with the second
C8_FetchGaveUp ==
  /\ pc = "ingest"
  /\ j = 1
  /\ Len(uw_author_ids) = 2
  /\ gets = 3
  /\ slept > SLEEP_SECONDS
  /\ papers_left = 0
  /\ ENABLED NextAuthor

\* C9: whenever the run is about to issue a GET other than its first, it has
\* slept at least the inter-call delay since the GET before.
C9_DelayBeforeEveryGet ==
  (pc \in {"resolve", "fetch"} /\ called) => slept >= SLEEP_SECONDS

\* C9 witness: the last resolution is over and the first fetch is about to be
\* issued, after a sleep of exactly the inter-call delay
C9_ResolveThenFetch ==
  pc = "fetch" /\ j = 1 /\ attempt = 0 /\ gets = 0 /\ called /\ slept = SLEEP_SECONDS

\* the minimum weights the threshold claim is checked for
Thresholds == 0..(2 * MaxPapers * MaxAuthors + 1)

\* links re-filtered by weight outside of the program
Refilter(es, w) == SelectSeq(es, LAMBDA e : e.weight >= w)

\* C10: for every minimum weight w the links built are exactly the
\* accumulated pairs of weight >= w, and building with 0 and re-filtering
\* with w gives the links built with w; the links emitted are those for
\* MIN_EDGE_WEIGHT.
C10_ThresholdFilter ==
  /\ \A w \in Thresholds :
       /\ {BuildEdges(edge_weights, w)[n] : n \in 1..Len(BuildEdges(edge_weights, w))}
            = {[source |-> edge_weights[n][1][1], target |-> edge_weights[n][1][2],
                weight |-> edge_weights[n][2]] :
                 n \in {m \in 1..Len(edge_weights) : edge_weights[m][2] >= w}}
       /\ Refilter(BuildEdges(edge_weights, 0), w) = BuildEdges(edge_weights, w)
  /\ pc = "done" => edges = Refilter(BuildEdges(edge_weights, 0), MIN_EDGE_WEIGHT)

\* C10 witness: a graph was emitted for which the filter kept a pair and
\* dropped another
C10_SomeKeptSomeDropped ==
  pc = "done" /\ Len(edges) >= 1 /\ Len(edges) < Len(edge_weights)

\* the publication lists an author is given in the order claim: no paper or one
OnePaperLists == {<<>>} \cup {<<p>> : p \in Papers}

\* the loop of line 142 run over the papers ps of seed author_id
RECURSIVE IngestPapers(_, _, _)
IngestPapers(ps, author_id, st) ==
  IF ps = <<>> THEN st
  ELSE IngestPapers(Tail(ps), author_id, IngestOne(Head(ps), author_id, st))

\* the loop of line 138 run from the n-th resolved name on, feed[n] being
\* what get_author_papers gives for it
RECURSIVE IngestAll(_, _, _, _)
IngestAll(ids, feed, n, st) ==
  IF n > Len(ids) THEN st
  ELSE IngestAll(ids, feed, n + 1, IngestPapers(feed[n], ids[n][2], st))

\* the maps of lines 122-170 for the resolved names ids and their papers
Aggregated(ids, feed) ==
  IngestAll(ids, feed, 1,
            [node_meta |-> AddUWNodes(ids, uw_author_meta, 1, <<>>), edge_weights |-> <<>>])

\* the graph of lines 174-199 as a set of nodes and a set of links
GraphOf(nm, ew) ==
  LET es == BuildEdges(ew, MIN_EDGE_WEIGHT)
      ns == BuildNodes(nm, es)
  IN [nodes |-> {ns[n] : n \in 1..Len(ns)}, links |-> {es[n] : n \in 1..Len(es)}]

\* the emitted graph as a set of nodes and a set of links
EmittedGraph ==
  [nodes |-> {nodes[n] : n \in 1..Len(nodes)}, links |-> {edges[n] : n \in 1..Len(edges)}]

\* the orders in which n pairs can be ingested
Perms(n) == {f \in [1..n -> 1..n] : \A a, b \in 1..n : f[a] = f[b] => a = b}

\* sequence s taken in the order f
Reorder(s, f) == [n \in 1..Len(s) |-> s[f[n]]]

\* C11: the emitted graph, as a set of nodes with all their fields and a set
\* of links, is the graph that the same pairs of resolved identity and
\* publication list give when they are ingested in any other order.
C11_OrderIndependent ==
  pc = "done" =>
    \A feed \in [1..Len(uw_author_ids) -> OnePaperLists] :
      LET run == Aggregated(uw_author_ids, feed)
      IN (run.edge_weights = edge_weights /\ GraphOf(run.node_meta, run.edge_weights) = EmittedGraph)
           => \A f \in Perms(Len(uw_author_ids)) :
                LET other == Aggregated(Reorder(uw_author_ids, f), Reorder(feed, f))
                IN GraphOf(other.node_meta, other.edge_weights) = EmittedGraph

\* paper p without the author entries that lack an id or a name
Cleaned(p) ==
  [year |-> p.year,
   authors |-> SelectSeq(p.authors, LAMBDA a : a.authorId # NoId /\ a.name # "")]

\* C12: whenever a paper is about to be ingested, ingesting it gives the nodes
\* and the edge weights that ingesting it without its author entries of
\* missing or empty id or name gives: such an entry makes no node and no edge,
\* and the other entries of the paper are processed as if it were not there.
C12_BadEntrySkipped ==
  (pc = "ingest" /\ papers_left > 0) =>
    \A p \in Papers :
      IngestOne(p, uw_author_ids[j][2], NowMaps)
        = IngestOne(Cleaned(p), uw_author_ids[j][2], NowMaps)

\* C12 witness: the first seed's paper has been ingested; it lists an entry
\* that has an id and an empty name and then a co-author who has both, and
\* only the co-author has a node and an edge
C12_BadAmongGood ==
  /\ pc = "ingest"
  /\ j = 1
  /\ papers_left = 0
  /\ Len(edge_weights) = 1
  /\ \E p \in Papers :
       /\ Len(p.authors) = 2
       /\ p.authors[1].authorId # NoId /\ p.authors[1].name = ""
       /\ p.authors[2].authorId \notin {NoId, p.authors[1].authorId, uw_author_ids[j][2]}
       /\ p.authors[2].name # ""
       /\ NowMaps = IngestOne(p, uw_author_ids[j][2], StartMaps)

\* C13: whenever a paper is about to be ingested: with a minimum year
\* configured, ingesting it ingests all its author entries when its year is
\* unknown or at least the minimum and changes neither nodes nor edge weights
\* otherwise; with none configured, its author entries are ingested whatever
\* its year.
C13_YearFilter ==
  (pc = "ingest" /\ papers_left > 0) =>
    \A p \in Papers :
      IngestOne(p, uw_author_ids[j][2], NowMaps)
        = IF min_year = None \/ p.year = None \/ p.year[1] >= min_year[1]
            THEN IngestAuthors(p.authors, uw_author_ids[j][2], NowMaps)
            ELSE NowMaps

\* C13 witness: a minimum year is configured and the first seed's paper, of
\* that very year, has been ingested and has given an edge
C13_PaperOfMinYearCounted ==
  /\ min_year = ConfiguredMinYear
  /\ pc = "ingest"
  /\ j = 1
  /\ papers_left = 0
  /\ edge_weights # <<>>
  /\ \E p \in Papers :
       /\ p.year = min_year
       /\ NowMaps = IngestOne(p, uw_author_ids[j][2], StartMaps)
  /\ \A p \in Papers :
       (p.year # None /\ p.year[1] < min_year[1])
         => IngestOne(p, uw_author_ids[j][2], StartMaps) = StartMaps

\* C14: when the twelfth GET of a resolution fails like the eleven before it,
\* find_author_id_by_name is over: it returns the no-match value to its
\* caller, and no failed GET ends the run by an exception.
C14_ExhaustionReturnsNone ==
  /\ [][(pc = "resolve" /\ gets = 11 /\ SearchFail)
          => (pc' = "unpack" /\ result' = NoResult /\ gets' = 12)]_vars
  /\ [][SearchFail => pc' \in {"resolve", "unpack"}]_vars

\* C14 witness: every one of the 12 GETs of a resolution failed, the last one
\* just now, and find_author_id_by_name has returned the no-match value
C14_GaveUpAfterAllFailed ==
  /\ pc = "unpack"
  /\ round = FindRetries
  /\ attempt = S2Attempts - 1
  /\ gets = 12
  /\ slept = Sleep(0, RetrySleep)
  /\ result = NoResult

\* the author ids the seed names have resolved to
ResolvedIds == {uw_author_ids[k][2] : k \in 1..Len(uw_author_ids)}

\* C15: a node has type "uw" exactly when its id is the id of a resolved seed
\* name, in the node map and in the emitted graph; once the seeds are
\* registered each of them has such a node, also after it was listed as a
\* co-author of another seed's paper; and the type of a node never changes.
C15_SeedIsUW ==
  /\ [](\A n \in 1..Len(node_meta) :
          (node_meta[n][2].type = "uw") <=> (node_meta[n][1] \in ResolvedIds))
  /\ [](\A n \in 1..Len(nodes) : (nodes[n].type = "uw") <=> (nodes[n].id \in ResolvedIds))
  /\ [](pc \in {"fetch", "ingest", "finalize", "done"}
          => \A x \in ResolvedIds : HasKey(node_meta, x))
  /\ [][\A n \in 1..Len(node_meta) :
          /\ Len(node_meta') >= n
          /\ node_meta'[n][1] = node_meta[n][1]
          /\ node_meta'[n][2].type = node_meta[n][2].type]_vars

\* C15 witness: two seeds of different ids; the first seed's paper, which
\* lists the second seed as co-author, has been ingested before any paper of
\* the second was fetched, and the second seed's node has type "uw"
C15_SeedSeenAsCoAuthor ==
  /\ pc = "ingest"
  /\ j = 1
  /\ papers_left = 0
  /\ Len(uw_author_ids) = 2
  /\ uw_author_ids[1][2] # uw_author_ids[2][2]
  /\ NowMaps = IngestOne(PaperWith(uw_author_ids[2][2]), uw_author_ids[1][2], StartMaps)
  /\ Len(edge_weights) = 1
  /\ Get(node_meta, uw_author_ids[2][2], [type |-> "none"]).type = "uw"

\* C16: no step changes a field that a node of the node map already has; a
\* step may only add nodes, or add the field "degree" to a node.
C16_NodeFieldsFrozen ==
  [][\A n \in 1..Len(node_meta) :
       /\ Len(node_meta') >= n
       /\ node_meta'[n][1] = node_meta[n][1]
       /\ \A f \in DOMAIN node_meta[n][2] :
            /\ f \in DOMAIN node_meta'[n][2]
            /\ node_meta'[n][2][f] = node_meta[n][2][f]]_vars

\* C17: whenever the papers of a resolved name are about to be fetched, no
\* name before it in the loop of line 138 has the same author id: the papers
\* of an author id are fetched once.
C17_FetchedOncePerId ==
  pc = "fetch" => \A k \in 1..(j - 1) : uw_author_ids[k][2] # uw_author_ids[j][2]

\* an upper bound on the GETs the run can still issue: what is left of the
\* running resolution or fetch, 12 for every seed name still to resolve, and 3
\* for every name that is or can still become a resolved one
GetBudget ==
  CASE pc = "resolve" ->
         3 * (3 - round) + (3 - attempt) + 12 * (Len(researchers) - 1)
           + 3 * (Len(researchers) + Len(uw_author_ids))
    [] pc = "unpack" ->
         12 * (Len(researchers) - 1) + 3 * (Len(researchers) + Len(uw_author_ids))
    [] pc = "addnodes" -> 3 * Len(uw_author_ids)
    [] pc = "fetch" -> (3 - attempt) + 3 * (Len(uw_author_ids) - j)
    [] pc = "ingest" -> 3 * (Len(uw_author_ids) - j)
    [] OTHER -> 0

\* C18: every run comes to its end, with the graph written or by an
\* exception; a fetch of papers issues at most 3 GETs and a resolution at most
\* 12; and the GETs of a run are at most 15 for each seed name: the budget
\* starts there, never grows, never goes below 0, and every GET takes at
\* least 1 from it.
C18_RunTerminates ==
  /\ GetBudget <= 15 * Len(researchers)
  /\ <>(pc \in {"done", "crashed"})
  /\ [](pc \in {"fetch", "ingest"} => gets <= 3)
  /\ [](pc \in {"resolve", "unpack"} => gets <= 12)
  /\ [](GetBudget >= 0)
  /\ [][GetBudget' <= GetBudget]_vars
  /\ [][(SearchFail \/ SearchOk \/ FetchFail \/ FetchOk) => GetBudget' < GetBudget]_vars

\* C18 witness: a run of two resolved names has come to its end with the
\* graph written, after the last fetch of papers had used up its 3 GETs
C18_EndedAfterFailedFetch ==
  /\ pc = "done"
  /\ Len(uw_author_ids) = 2
  /\ called
  /\ slept = Sleep(Sleep(0, RetrySleep), SLEEP_SECONDS)

\* the body {"data": []} of a search that matched no author
EmptyList == [kind |-> "data", data |-> <<>>]

\* C19: when the first GET of a resolution is answered 200 with an empty
\* candidate list, find_author_id_by_name returns the no-match value at once:
\* that GET is the only one, and no retry round is entered.
C19_EmptyListIsFinal ==
  [][(gets = 0 /\ SearchOk /\ AfterSearch(EmptyList, 0))
       => /\ pc' = "unpack"
          /\ result' = NoResult
          /\ gets' = 1
          /\ round' = 0
          /\ attempt' = 0
          /\ slept' = 0]_vars

\* C19 witness: find_author_id_by_name has returned the no-match value after
\* one GET that was answered, without any sleep since and without any retry
C19_NoMatchAfterOneGet ==
  /\ pc = "unpack"
  /\ gets = 1
  /\ round = 0
  /\ attempt = 0
  /\ slept = 0
  /\ result = FindResult(EmptyList)
  /\ ~result.found

\* sum of the degree fields of the nodes ns
RECURSIVE SumDegrees(_)
SumDegrees(ns) == IF ns = <<>> THEN 0 ELSE Head(ns).degree + SumDegrees(Tail(ns))

\* the larger of two numbers
Max(a, b) == IF a >= b THEN a ELSE b

\* C20: in the emitted graph every node has degree at least 1, the degrees
\* add up to twice the number of links, every link has weight at least
\* max(1, MIN_EDGE_WEIGHT), and no two nodes have the same id.
C20_GraphConsistent ==
  pc = "done"
    => /\ \A n \in 1..Len(nodes) : nodes[n].degree >= 1
       /\ SumDegrees(nodes) = 2 * Len(edges)
       /\ \A e \in 1..Len(edges) : edges[e].weight >= Max(1, MIN_EDGE_WEIGHT)
       /\ \A a, b \in 1..Len(nodes) : nodes[a].id = nodes[b].id => a = b

\* C20 witness: a graph of 3 nodes and 2 links was emitted
C20_ThreeNodesTwoLinks ==
  pc = "done" /\ Len(nodes) = 3 /\ Len(edges) = 2 /\ SumDegrees(nodes) = 4

====
